---- MODULE Spec2Model ----
(***************************************************************************)
(* HuMoLipsyncSuppress.apply (nodes.py) as a state machine.                *)
(*                                                                         *)
(* Tensors live in a heap of objects so that aliasing (x_orig = x,         *)
(* x_smooth = x when the smoother is skipped) and the shallow dict copy    *)
(* are visible.  Tensor elements are exact numbers: a rational part plus   *)
(* at most one signed square root (the RMS ratio and the standard          *)
(* deviation are square roots of rationals).  Floating-point rounding is   *)
(* not modelled: every arithmetic operation is the exact real one, on      *)
(* finite values.                                                          *)
(***************************************************************************)
EXTENDS Integers, Sequences

\* ------------------------------------------------------------------------
\* Bounds of the model
\* ------------------------------------------------------------------------
MaxT == 2   \* longest input sequence (frames)
MaxC == 2   \* widest channel axis

\* ------------------------------------------------------------------------
\* Exact rationals  n/d * 10^e,  d > 0, n and d coprime and free of factors 5
\* ------------------------------------------------------------------------
Abs(i) == IF i < 0 THEN -i ELSE i

Sgn(i) == IF i < 0 THEN -1 ELSE IF i > 0 THEN 1 ELSE 0

RECURSIVE Gcd(_, _)
Gcd(a, b) == IF b = 0 THEN a ELSE Gcd(b, a % b)

RECURSIVE Pow10(_)
Pow10(k) == IF k <= 0 THEN 1 ELSE 10 * Pow10(k - 1)

RZero == [n |-> 0, d |-> 1, e |-> 0]

\* moves every factor 5 of n and d into the exponent
RECURSIVE RNormAux(_, _, _)
RNormAux(n, d, e) ==
    IF n % 10 = 0 THEN RNormAux(n \div 10, d, e + 1)
    ELSE IF d % 10 = 0 THEN RNormAux(n, d \div 10, e - 1)
    ELSE IF n % 5 = 0 THEN RNormAux(n \div 5, d * 2, e + 1)
    ELSE IF d % 5 = 0 THEN RNormAux(n * 2, d \div 5, e - 1)
    ELSE LET g == Gcd(Abs(n), d) IN [n |-> n \div g, d |-> d \div g, e |-> e]

\* the canonical form of n/d * 10^e (d > 0)
RNorm(n, d, e) ==
    IF n = 0 THEN RZero
    ELSE LET g == Gcd(Abs(n), d) IN RNormAux(n \div g, d \div g, e)

Rat(n, d) == RNorm(n, d, 0)

RInt(i) == RNorm(i, 1, 0)

ROne == RInt(1)

RNeg(a) == [a EXCEPT !.n = -a.n]

RMul(a, b) ==
    LET g1 == Gcd(Abs(a.n), b.d)
        g2 == Gcd(Abs(b.n), a.d)
    IN  IF a.n = 0 \/ b.n = 0 THEN RZero
        ELSE RNorm((a.n \div g1) * (b.n \div g2), (a.d \div g2) * (b.d \div g1), a.e + b.e)

RAdd(a, b) ==
    IF a.n = 0 THEN b
    ELSE IF b.n = 0 THEN a
    ELSE LET e == IF a.e < b.e THEN a.e ELSE b.e
             an == a.n * Pow10(a.e - e)
             bn == b.n * Pow10(b.e - e)
             g == Gcd(a.d, b.d)
         IN  RNorm(an * (b.d \div g) + bn * (a.d \div g), (a.d \div g) * b.d, e)

RSub(a, b) == RAdd(a, RNeg(b))

\* a / b, b # 0
RDiv(a, b) == RMul(a, [n |-> Sgn(b.n) * b.d, d |-> Abs(b.n), e |-> -b.e])

RSq(a) == RMul(a, a)

RECURSIVE CeilDivPow(_, _)
CeilDivPow(i, k) == IF k <= 0 THEN i ELSE CeilDivPow((i + 9) \div 10, k - 1)

RECURSIVE FloorDivPow(_, _)
FloorDivPow(i, k) == IF k <= 0 THEN i ELSE FloorDivPow(i \div 10, k - 1)

\* a < b for a, b > 0; exponents far apart never multiply out
PosLess(a, b) ==
    LET g == Gcd(a.d, b.d)
        l == a.n * (b.d \div g)
        r == b.n * (a.d \div g)
    IN  IF a.e >= b.e THEN l < CeilDivPow(r, a.e - b.e)
        ELSE ~(r <= FloorDivPow(l, b.e - a.e))

RLess(a, b) ==
    IF Sgn(a.n) # Sgn(b.n) THEN Sgn(a.n) < Sgn(b.n)
    ELSE IF a.n = 0 THEN FALSE
    ELSE IF a.n > 0 THEN PosLess(a, b)
    ELSE PosLess(RNeg(b), RNeg(a))

RLeq(a, b) == ~RLess(b, a)

RMax(a, b) == IF RLess(a, b) THEN b ELSE a

\* integer square root (floor), Newton's iteration
RECURSIVE ISqrtAux(_, _)
ISqrtAux(n, x) ==
    LET y == (x + n \div x) \div 2
    IN  IF y >= x THEN x ELSE ISqrtAux(n, y)

ISqrt(n) == IF n <= 0 THEN 0 ELSE ISqrtAux(n, n)

IsSquare(n) == n >= 0 /\ ISqrt(n) * ISqrt(n) = n

\* q >= 0 is the square of a rational
RIsSquare(q) == q.e % 2 = 0 /\ IsSquare(q.n) /\ IsSquare(q.d)

\* sqrt(q) for q a rational square
RSqrt(q) == RNorm(ISqrt(q.n), ISqrt(q.d), q.e \div 2)

\* ------------------------------------------------------------------------
\* Tensor elements:  r + sg * sqrt(m),  sg in {-1,0,1}, m > 0 not a square
\* ------------------------------------------------------------------------
Num(r, sg, m) ==
    IF sg = 0 \/ m.n = 0 THEN [r |-> r, sg |-> 0, m |-> RZero]
    ELSE IF RIsSquare(m)
         THEN [r |-> RAdd(r, RMul(RInt(sg), RSqrt(m))), sg |-> 0, m |-> RZero]
         ELSE [r |-> r, sg |-> sg, m |-> m]

NumOf(r) == Num(r, 0, RZero)

IsRational(x) == x.sg = 0

\* x * c for a rational c
NScale(x, c) == Num(RMul(x.r, c), x.sg * Sgn(c.n), RMul(x.m, RSq(c)))

\* x * sqrt(q) for a rational x and a rational q >= 0
NScaleSqrt(x, q) == Num(RZero, Sgn(x.r.n), RMul(RSq(x.r), q))

\* x + y; at most one square root survives in every sum the pipeline forms
NAdd(x, y) ==
    IF y.sg = 0 THEN Num(RAdd(x.r, y.r), x.sg, x.m)
    ELSE Num(RAdd(x.r, y.r), y.sg, y.m)

\* x^2 of an element that is rational or a pure square root
NSq(x) == IF x.sg = 0 THEN RSq(x.r) ELSE x.m

\* ------------------------------------------------------------------------
\* Tensors: [shape, data]; data[t][b][c] for rank 3, data[b][c] for a frame
\* ------------------------------------------------------------------------
B == 5

KEY == "humo_audio_emb"

OTHER_KEY == "other_embeds"

Tensor3(data) ==
    [shape |-> <<Len(data), Len(data[1]), Len(data[1][1])>>, data |-> data]

Frame(data) == [shape |-> <<Len(data), Len(data[1])>>, data |-> data]

\* a value whose elements play no part (wrong rank, or another key's value)
Opaque(shape) == [shape |-> shape, data |-> <<>>]

\* sum of s[lo..hi]
RECURSIVE SumRange(_, _, _)
SumRange(s, lo, hi) ==
    IF lo > hi THEN RZero
    ELSE IF lo = hi THEN s[lo]
    ELSE LET mid == (lo + hi) \div 2
         IN  RAdd(SumRange(s, lo, mid), SumRange(s, mid + 1, hi))

SumSeq(s) == SumRange(s, 1, Len(s))

\* all elements of a rank-3 array, in storage order
Flatten(x) ==
    LET nb == Len(x[1])
        nc == Len(x[1][1])
    IN  [i \in 1..(Len(x) * nb * nc) |->
            x[((i - 1) \div (nb * nc)) + 1][(((i - 1) \div nc) % nb) + 1][((i - 1) % nc) + 1]]

\* ------------------------------------------------------------------------
\* The preset (class attributes) and the other settings the code is read at
\* ------------------------------------------------------------------------
PRESET_GAINS == <<Rat(400, 100), Rat(400, 100), Rat(50, 100), Rat(1, 100), Rat(1, 100)>>

PRESET_EMA_BETA == Rat(90, 100)

PRESET_PRESERVE_RMS == FALSE

PRESET_ALPHA_MIX == Rat(100, 100)

PRESET_GLOBAL_GAIN == Rat(100, 100)

PRESET_CLAMP_STD == Rat(0, 100)

Preset ==
    [gains |-> PRESET_GAINS, ema_beta |-> PRESET_EMA_BETA,
     preserve_rms |-> PRESET_PRESERVE_RMS, alpha_mix |-> PRESET_ALPHA_MIX,
     global_gain |-> PRESET_GLOBAL_GAIN, clamp_std |-> PRESET_CLAMP_STD]

AltGains == <<RInt(2), RInt(1), Rat(1, 2), RInt(3), RInt(1)>>

\* settings with the clamp disabled, as in the preset
NoClampConfigs ==
    [gains : {PRESET_GAINS, AltGains},
     ema_beta : {Rat(-1, 2), RZero, Rat(1, 2), PRESET_EMA_BETA},
     preserve_rms : BOOLEAN,
     alpha_mix : {RZero, Rat(1, 2), ROne},
     global_gain : {ROne, RInt(2)},
     clamp_std : {PRESET_CLAMP_STD}]

\* Settings with the clamp enabled.  The clamp's statistics are taken of
\* rational elements, so these settings have no RMS rescale (it leaves
\* square roots), and gains and beta with short binary expansions.
ClampConfigs ==
    [gains : {AltGains},
     ema_beta : {Rat(-1, 2), RZero, Rat(1, 2)},
     preserve_rms : {FALSE},
     alpha_mix : {RZero, Rat(1, 2), ROne},
     global_gain : {ROne, RInt(2)},
     clamp_std : {ROne}]

Configs == NoClampConfigs \cup ClampConfigs

\* ------------------------------------------------------------------------
\* Inputs of a call
\* ------------------------------------------------------------------------
\* Frame templates: a value per band, spread over the channels either in
\* proportion to the channel number or evenly
PatZ == [band |-> <<0, 0, 0, 0, 0>>, flat |-> {}]

PatP == [band |-> <<1, 2, -1, 1, 2>>, flat |-> {}]

PatQ == [band |-> <<-1, 1, 1, 2, 0>>, flat |-> {4}]

Patterns == {PatZ, PatP, PatQ}

FrameOf(pat, C) ==
    [b \in 1..B |-> [c \in 1..C |->
        NumOf(RInt(pat.band[b] * (IF b \in pat.flat THEN 1 ELSE c)))]]

\* [2,5,4]: frame 0 all ones, frame 1 all twos
ExampleInput == Tensor3([t \in 1..2 |-> [b \in 1..B |-> [c \in 1..4 |-> NumOf(RInt(t))]]])

ValidInputs ==
    {ExampleInput} \cup
    UNION {UNION {{Tensor3([t \in 1..T |-> FrameOf(pats[t], C)]) :
                      pats \in [1..T -> Patterns]} : C \in 1..MaxC} : T \in 1..MaxT}

\* values of the wrong rank or band count
BadShapes == {<<>>, <<5>>, <<2, 5>>, <<2, 4, 2>>, <<5, 2, 5>>, <<1, 5, 2, 1>>}

BadInputs == {Opaque(sh) : sh \in BadShapes}

\* no value: the key is not in the container
Absent == Opaque(<<-1>>)

\* ------------------------------------------------------------------------
\* State
\* ------------------------------------------------------------------------
VARIABLES
    cfg,           \* the class attributes PRESET_*
    pc,            \* position in apply
    heap,          \* tensor objects, by reference
    dicts,         \* dict objects, by reference: key -> heap reference
    image_embeds,  \* argument: reference of the caller's dict
    enabled,       \* argument
    embeds, x, x_orig, gains, s, out_seq, t, x_smooth, x_edit, x_mixed,  \* locals
    ret,           \* reference of the returned dict, 0 while none
    err,           \* the error raised, "none" while none
    stages,        \* the checks and numeric stages executed so far
    heap0, dicts0  \* heap and dicts as the caller passed them

locals == <<embeds, x, x_orig, gains, s, out_seq, t, x_smooth, x_edit, x_mixed>>

args == <<image_embeds, enabled, heap0, dicts0>>

vars == <<cfg, pc, heap, dicts, args, locals, ret, err, stages>>

None == 0

Alloc(obj) == Append(heap, obj)

NewRef == Len(heap) + 1

Init ==
    /\ cfg \in Configs
    /\ pc = "idle"
    /\ heap = <<>> /\ dicts = <<>> /\ heap0 = <<>> /\ dicts0 = <<>>
    /\ image_embeds = None /\ enabled = FALSE
    /\ embeds = None /\ x = None /\ x_orig = None /\ gains = <<>>
    /\ s = None /\ out_seq = <<>> /\ t = 0
    /\ x_smooth = None /\ x_edit = None /\ x_mixed = None
    /\ ret = None /\ err = "none" /\ stages = {}

\* the host calls apply(image_embeds, enabled)
Call ==
    /\ pc = "idle"
    /\ \E val \in ValidInputs \cup BadInputs \cup {Absent}, en \in BOOLEAN :
          LET h == IF val = Absent THEN <<Opaque(<<1, 2>>)>>
                   ELSE <<Opaque(<<1, 2>>), val>>
              d == [k \in (IF val = Absent THEN {OTHER_KEY} ELSE {OTHER_KEY, KEY}) |->
                        IF k = OTHER_KEY THEN 1 ELSE 2]
          IN  /\ heap' = h /\ heap0' = h
              /\ dicts' = <<d>> /\ dicts0' = <<d>>
              /\ image_embeds' = 1
              /\ enabled' = en
    /\ pc' = "l54"
    /\ UNCHANGED <<cfg, locals, ret, err, stages>>

\* a variant that copies the container before looking at enabled
PassthroughCopies ==
    /\ pc = "l54" /\ ~enabled
    /\ dicts' = Append(dicts, dicts[image_embeds])
    /\ ret' = Len(dicts) + 1
    /\ pc' = "returned"
    /\ UNCHANGED <<cfg, heap, args, locals, err, stages>>

\* lines 54-55
Passthrough ==
    /\ pc = "l54" /\ ~enabled
    /\ ret' = image_embeds
    /\ pc' = "returned"
    /\ UNCHANGED <<cfg, heap, dicts, args, locals, err, stages>>

\* dict(image_embeds)
DictCopy(d) == d

\* line 58
CopyDict ==
    /\ pc = "l54" /\ enabled
    /\ dicts' = Append(dicts, DictCopy(dicts[image_embeds]))
    /\ embeds' = Len(dicts) + 1
    /\ pc' = "l61"
    /\ UNCHANGED <<cfg, heap, args, x, x_orig, gains, s, out_seq, t, x_smooth,
                   x_edit, x_mixed, ret, err, stages>>

HasKey(d) == KEY \in DOMAIN d

\* a variant that binds a default value to the absent key and goes on
MissingKeyDefault ==
    /\ pc = "l61" /\ ~HasKey(dicts[embeds])
    /\ dicts' = [dicts EXCEPT ![embeds] =
                    [kk \in DOMAIN @ \cup {KEY} |-> IF kk = KEY THEN 1 ELSE @[kk]]]
    /\ x' = 1
    /\ pc' = "l65"
    /\ stages' = stages \cup {"keycheck"}
    /\ UNCHANGED <<cfg, heap, args, embeds, x_orig, gains, s, out_seq, t,
                   x_smooth, x_edit, x_mixed, ret, err>>

\* lines 61-62: raise ValueError("Missing key ..."), the MissingKeyError
\* of the design (err names the raise site)
MissingKey ==
    /\ pc = "l61" /\ ~HasKey(dicts[embeds])
    /\ err' = "MissingKeyError"
    /\ pc' = "raised"
    /\ stages' = stages \cup {"keycheck"}
    /\ UNCHANGED <<cfg, heap, dicts, args, locals, ret>>

\* lines 61, 64
Fetch ==
    /\ pc = "l61" /\ HasKey(dicts[embeds])
    /\ x' = dicts[embeds][KEY]
    /\ pc' = "l65"
    /\ stages' = stages \cup {"keycheck"}
    /\ UNCHANGED <<cfg, heap, dicts, args, embeds, x_orig, gains, s, out_seq, t,
                   x_smooth, x_edit, x_mixed, ret, err>>

\* a variant that checks the rank only
ShapeOkRankOnly(shape) == Len(shape) = 3

\* line 65: not (x.ndim != 3 or x.shape[1] != 5)
ShapeOk(shape) == ~(Len(shape) # 3 \/ shape[2] # B)

\* lines 65-66: raise ValueError("... expected shape [T,5,C] ..."), the
\* ShapeError of the design
ShapeReject ==
    /\ pc = "l65" /\ ~ShapeOk(heap[x].shape)
    /\ err' = "ShapeError"
    /\ pc' = "raised"
    /\ stages' = stages \cup {"shapecheck"}
    /\ UNCHANGED <<cfg, heap, dicts, args, locals, ret>>

\* lines 65-73: x_orig = x, gains = tensor(PRESET_GAINS).view(1, 5, 1)
Prepare ==
    /\ pc = "l65" /\ ShapeOk(heap[x].shape)
    /\ x_orig' = x
    /\ gains' = cfg.gains
    /\ pc' = "l76"
    /\ stages' = stages \cup {"shapecheck", "gains"}
    /\ UNCHANGED <<cfg, heap, dicts, args, embeds, x, s, out_seq, t, x_smooth,
                   x_edit, x_mixed, ret, err>>

\* ------------------------------------------------------------------------
\* Temporal smoother, lines 75-86
\* ------------------------------------------------------------------------
FramesOf(ref) == heap[ref].shape[1]

\* line 76
SmoothActive(T) == T > 1 /\ RLess(RZero, cfg.ema_beta)

\* a variant that starts the running state at beta * x[0]
FirstStateDecayed(x0) ==
    [b \in 1..Len(x0) |-> [c \in 1..Len(x0[b]) |-> NScale(x0[b][c], cfg.ema_beta)]]

\* line 77: x[0].clone()
FirstState(x0) == x0

\* a variant with the two weights exchanged
EmaStepSwapped(sd, xt, beta) ==
    [b \in 1..Len(sd) |-> [c \in 1..Len(sd[b]) |->
        NAdd(NScale(sd[b][c], RSub(ROne, beta)), NScale(xt[b][c], beta))]]

\* line 82: beta * s + one_m * x[t], one_m = 1.0 - beta (line 80)
EmaStep(sd, xt, beta) ==
    [b \in 1..Len(sd) |-> [c \in 1..Len(sd[b]) |->
        NAdd(NScale(sd[b][c], beta), NScale(xt[b][c], RSub(ROne, beta)))]]

\* lines 76-80
SmoothInit ==
    /\ pc = "l76" /\ SmoothActive(FramesOf(x))
    /\ heap' = Alloc(Frame(FirstState(heap[x].data[1])))
    /\ s' = NewRef
    /\ out_seq' = <<NewRef>>
    /\ t' = 1
    /\ pc' = "l81"
    /\ stages' = stages \cup {"smooth"}
    /\ UNCHANGED <<cfg, dicts, args, embeds, x, x_orig, gains, x_smooth, x_edit,
                   x_mixed, ret, err>>

\* lines 81-83, one iteration of the loop (t is the 0-based frame index)
SmoothStep ==
    /\ pc = "l81" /\ t < FramesOf(x)
    /\ heap' = Alloc(Frame(EmaStep(heap[s].data, heap[x].data[t + 1], cfg.ema_beta)))
    /\ s' = NewRef
    /\ out_seq' = Append(out_seq, NewRef)
    /\ t' = t + 1
    /\ UNCHANGED <<cfg, pc, dicts, args, embeds, x, x_orig, gains, x_smooth, x_edit,
                   x_mixed, ret, err, stages>>

\* line 84: torch.stack(out_seq, dim=0)
SmoothStack ==
    /\ pc = "l81" /\ ~(t < FramesOf(x))
    /\ heap' = Alloc(Tensor3([i \in 1..Len(out_seq) |-> heap[out_seq[i]].data]))
    /\ x_smooth' = NewRef
    /\ pc' = "l89"
    /\ UNCHANGED <<cfg, dicts, args, embeds, x, x_orig, gains, s, out_seq, t, x_edit,
                   x_mixed, ret, err, stages>>

\* lines 85-86: x_smooth = x
SmoothSkip ==
    /\ pc = "l76" /\ ~SmoothActive(FramesOf(x))
    /\ x_smooth' = x
    /\ pc' = "l89"
    /\ UNCHANGED <<cfg, heap, dicts, args, embeds, x, x_orig, gains, s, out_seq, t,
                   x_edit, x_mixed, ret, err, stages>>

\* ------------------------------------------------------------------------
\* Gain, RMS preservation, blend: lines 88-99
\* ------------------------------------------------------------------------
\* a variant whose band index is off by one
MulGainsShifted(xs, g) ==
    [f \in 1..Len(xs) |-> [b \in 1..Len(xs[f]) |-> [c \in 1..Len(xs[f][b]) |->
        NScale(xs[f][b][c], g[(b % Len(g)) + 1])]]]

\* line 89: x_smooth * gains, gains of shape [1,5,1]
MulGains(xs, g) ==
    [f \in 1..Len(xs) |-> [b \in 1..Len(xs[f]) |-> [c \in 1..Len(xs[f][b]) |->
        NScale(xs[f][b][c], g[b])]]]

\* the position after line 89
AfterGains == IF cfg.preserve_rms THEN "l93" ELSE "l98"

\* a variant that multiplies in place (x_smooth.mul_(gains))
ApplyGainsInPlace ==
    /\ pc = "l89"
    /\ heap' = [heap EXCEPT ![x_smooth] = Tensor3(MulGains(@.data, gains))]
    /\ x_edit' = x_smooth
    /\ pc' = AfterGains
    /\ stages' = stages \cup {"gain"}
    /\ UNCHANGED <<cfg, dicts, args, embeds, x, x_orig, gains, s, out_seq, t,
                   x_smooth, x_mixed, ret, err>>

ApplyGains ==
    /\ pc = "l89"
    /\ heap' = Alloc(Tensor3(MulGains(heap[x_smooth].data, gains)))
    /\ x_edit' = NewRef
    /\ pc' = AfterGains
    /\ stages' = stages \cup {"gain"}
    /\ UNCHANGED <<cfg, dicts, args, embeds, x, x_orig, gains, s, out_seq, t,
                   x_smooth, x_mixed, ret, err>>

\* eps of _rms, 1e-6, and its square
RmsEps == RNorm(1, 1, -6)

EpsSq == RSq(RmsEps)

\* mean over the channel axis of the squares of one frame's band
MeanSq(row) == RDiv(SumSeq([c \in 1..Len(row) |-> NSq(row[c])]), RInt(Len(row)))

\* _rms(x)^2 at every frame and band: sqrt and clamp_min(eps) are monotone,
\* so sqrt(ms).clamp_min(eps) squared is max(ms, eps^2)
Rms2(xd) == [f \in 1..Len(xd) |-> [b \in 1..Len(xd[f]) |-> RMax(MeanSq(xd[f][b]), EpsSq)]]

\* a variant with the ratio inverted
RescaleInverted(xe, rms_orig2, rms_edit2) ==
    [f \in 1..Len(xe) |-> [b \in 1..Len(xe[f]) |-> [c \in 1..Len(xe[f][b]) |->
        NScaleSqrt(xe[f][b][c], RDiv(rms_edit2[f][b], rms_orig2[f][b]))]]]

\* line 95: x_edit * (rms_orig / rms_edit)
Rescale(xe, rms_orig2, rms_edit2) ==
    [f \in 1..Len(xe) |-> [b \in 1..Len(xe[f]) |-> [c \in 1..Len(xe[f][b]) |->
        NScaleSqrt(xe[f][b][c], RDiv(rms_orig2[f][b], rms_edit2[f][b]))]]]

\* lines 92-95
PreserveRms ==
    /\ pc = "l93"
    /\ heap' = Alloc(Tensor3(Rescale(heap[x_edit].data, Rms2(heap[x_orig].data),
                                     Rms2(heap[x_edit].data))))
    /\ x_edit' = NewRef
    /\ pc' = "l98"
    /\ stages' = stages \cup {"rms"}
    /\ UNCHANGED <<cfg, dicts, args, embeds, x, x_orig, gains, s, out_seq, t,
                   x_smooth, x_mixed, ret, err>>

\* a variant that blends against the smoothed array instead of the input
BlendAgainstSmoothed(xo, xe, alpha) ==
    [f \in 1..Len(xo) |-> [b \in 1..Len(xo[f]) |-> [c \in 1..Len(xo[f][b]) |->
        NAdd(NScale(heap[x_smooth].data[f][b][c], RSub(ROne, alpha)),
             NScale(xe[f][b][c], alpha))]]]

\* line 99: (1.0 - alpha) * x_orig + alpha * x_edit
BlendMix(xo, xe, alpha) ==
    [f \in 1..Len(xo) |-> [b \in 1..Len(xo[f]) |-> [c \in 1..Len(xo[f][b]) |->
        NAdd(NScale(xo[f][b][c], RSub(ROne, alpha)), NScale(xe[f][b][c], alpha))]]]

\* the position after line 103
AfterGlobal == IF RLess(RZero, cfg.clamp_std) THEN "l107" ELSE "l113"

\* the position after line 99
AfterBlend == IF cfg.global_gain # ROne THEN "l103" ELSE AfterGlobal

\* lines 98-99
Blend ==
    /\ pc = "l98"
    /\ heap' = Alloc(Tensor3(BlendMix(heap[x_orig].data, heap[x_edit].data, cfg.alpha_mix)))
    /\ x_mixed' = NewRef
    /\ pc' = AfterBlend
    /\ stages' = stages \cup {"blend"}
    /\ UNCHANGED <<cfg, dicts, args, embeds, x, x_orig, gains, s, out_seq, t,
                   x_smooth, x_edit, ret, err>>

\* ------------------------------------------------------------------------
\* Post stage: lines 101-111
\* ------------------------------------------------------------------------
\* line 103: x_mixed * PRESET_GLOBAL_GAIN
ScaleAll(xd, g) ==
    [f \in 1..Len(xd) |-> [b \in 1..Len(xd[f]) |-> [c \in 1..Len(xd[f][b]) |->
        NScale(xd[f][b][c], g)]]]

\* lines 102-103
GlobalGain ==
    /\ pc = "l103"
    /\ heap' = Alloc(Tensor3(ScaleAll(heap[x_mixed].data, cfg.global_gain)))
    /\ x_mixed' = NewRef
    /\ pc' = AfterGlobal
    /\ stages' = stages \cup {"global"}
    /\ UNCHANGED <<cfg, dicts, args, embeds, x, x_orig, gains, s, out_seq, t,
                   x_smooth, x_edit, ret, err>>

\* torch.Tensor.std() with no argument applies Bessel's correction
Correction == 1

\* x.mean() over all axes (rational elements)
Mean(xd) ==
    LET fl == Flatten(xd)
    IN  RDiv(SumSeq([i \in 1..Len(fl) |-> fl[i].r]), RInt(Len(fl)))

\* a variant with the population divisor N
VariancePopulation(xd) ==
    LET fl == Flatten(xd)
        mu == Mean(xd)
    IN  RDiv(SumSeq([i \in 1..Len(fl) |-> RSq(RSub(fl[i].r, mu))]), RInt(Len(fl)))

\* x.std()^2 over all axes (rational elements)
Variance(xd) ==
    LET fl == Flatten(xd)
        mu == Mean(xd)
    IN  RDiv(SumSeq([i \in 1..Len(fl) |-> RSq(RSub(fl[i].r, mu))]),
             RInt(Len(fl) - Correction))

\* line 108: x_mixed.std().clamp_min(1e-6), squared
StdFloor == RNorm(1, 1, -6)

Std2(xd) == RMax(Variance(xd), RSq(StdFloor))

\* lines 109-110
Lo(mean, k, std2) == Num(mean, -1, RMul(RSq(k), std2))

Hi(mean, k, std2) == Num(mean, 1, RMul(RSq(k), std2))

\* line 111, one element: min(max(e, lo), hi) for a rational e and k > 0
ClampElem(e, mean, k, std2) ==
    LET d == RSub(e.r, mean)
        out == RLess(RMul(RSq(k), std2), RSq(d))
    IN  IF out /\ d.n < 0 THEN Lo(mean, k, std2)
        ELSE IF out /\ d.n > 0 THEN Hi(mean, k, std2)
        ELSE e

\* lines 107-111
ClampStd(xd, k) ==
    LET mean == Mean(xd)
        std2 == Std2(xd)
    IN  [f \in 1..Len(xd) |-> [b \in 1..Len(xd[f]) |-> [c \in 1..Len(xd[f][b]) |->
            ClampElem(xd[f][b][c], mean, k, std2)]]]

Clamp ==
    /\ pc = "l107"
    /\ heap' = Alloc(Tensor3(ClampStd(heap[x_mixed].data, cfg.clamp_std)))
    /\ x_mixed' = NewRef
    /\ pc' = "l113"
    /\ stages' = stages \cup {"clamp"}
    /\ UNCHANGED <<cfg, dicts, args, embeds, x, x_orig, gains, s, out_seq, t,
                   x_smooth, x_edit, ret, err>>

\* embeds[key] = value
StoreKey(d, k, v) == [kk \in DOMAIN d \cup {k} |-> IF kk = k THEN v ELSE d[kk]]

\* lines 113-114
Store ==
    /\ pc = "l113"
    /\ dicts' = [dicts EXCEPT ![embeds] = StoreKey(@, KEY, x_mixed)]
    /\ ret' = embeds
    /\ pc' = "returned"
    /\ UNCHANGED <<cfg, heap, args, locals, err, stages>>

Next ==
    \/ Call
    \/ Passthrough
    \/ CopyDict
    \/ MissingKey
    \/ Fetch
    \/ ShapeReject
    \/ Prepare
    \/ SmoothInit
    \/ SmoothStep
    \/ SmoothStack
    \/ SmoothSkip
    \/ ApplyGains
    \/ PreserveRms
    \/ Blend
    \/ GlobalGain
    \/ Clamp
    \/ Store

Spec == Init /\ [][Next]_vars

\* ------------------------------------------------------------------------
\* Properties
\* ------------------------------------------------------------------------
Called == pc # "idle"

Returned == pc = "returned"

\* the caller's container and every object it passed are as they were
CallerUntouched ==
    /\ dicts[image_embeds] = dicts0[1]
    /\ \A i \in 1..Len(heap0) : heap[i] = heap0[i]

\* the array the caller bound to the key
InputArray == heap0[dicts0[1][KEY]].data

\* the array bound to the key in the returned container
OutputArray == heap[dicts[ret][KEY]].data

NumericStages == {"gains", "smooth", "gain", "rms", "blend", "global", "clamp"}

\* C1: with enabled = false apply raises nothing and returns the very
\* container it was given (same object, same keys, same values), whether
\* or not the key is there or well-shaped, and no validation or numeric
\* stage runs.
C1_PassthroughIdentity ==
    (Called /\ ~enabled) =>
        /\ pc \in {"l54", "returned"}
        /\ err = "none"
        /\ stages = {}
        /\ heap = heap0 /\ dicts = dicts0
        /\ Returned => (ret = image_embeds /\ dicts[ret] = dicts0[1])

C1_Witness ==
    /\ Returned /\ ~enabled
    /\ KEY \in DOMAIN dicts[ret]
    /\ Len(heap[dicts[ret][KEY]].shape) # 3

\* C2: with enabled = true and the key absent apply fails with
\* MissingKeyError: nothing is returned, no default value is bound to the
\* key, and the caller's container is unchanged.
C2_MissingKeyRaises ==
    (Called /\ enabled /\ KEY \notin DOMAIN dicts0[1]) =>
        /\ pc \in {"l54", "l61", "raised"}
        /\ pc = "raised" => err = "MissingKeyError"
        /\ ret = None
        /\ \A i \in 1..Len(dicts) : KEY \notin DOMAIN dicts[i]
        /\ heap = heap0
        /\ CallerUntouched
        /\ stages \cap NumericStages = {}

C2_Witness == pc = "raised" /\ err = "MissingKeyError" /\ embeds # None

\* rank # 3, or rank 3 with axis-1 length # 5
WrongShape(shape) == Len(shape) # 3 \/ (Len(shape) = 3 /\ shape[2] # 5)

\* C3: with enabled = true and the key bound to a value of rank other than
\* 3, or of rank 3 with axis 1 not of length 5, apply raises ShapeError
\* before any numeric stage has run, and returns no partial result.
C3_ShapeRejected ==
    (Called /\ enabled /\ KEY \in DOMAIN dicts0[1]
            /\ WrongShape(heap0[dicts0[1][KEY]].shape)) =>
        /\ pc \in {"l54", "l61", "l65", "raised"}
        /\ pc = "raised" => err = "ShapeError"
        /\ ret = None
        /\ stages \cap NumericStages = {}
        /\ heap = heap0

C3_Witness ==
    /\ pc = "raised" /\ err = "ShapeError"
    /\ heap[x].shape = <<5, 2, 5>>

\* C4: after a successful apply with enabled = true the returned container
\* is another object than the caller's, with the same keys; every other
\* key is bound to the same value; the caller's container still binds the
\* key to the original array, whose elements are unmodified (also when the
\* smoother is skipped and x_smooth aliases the input).
C4_CopyOnWrite ==
    (Called /\ enabled) =>
        /\ CallerUntouched
        /\ Returned =>
              /\ ret # image_embeds
              /\ DOMAIN dicts[ret] = DOMAIN dicts0[1]
              /\ \A k \in DOMAIN dicts[ret] \ {KEY} : dicts[ret][k] = dicts0[1][k]
              /\ dicts[ret][KEY] # dicts0[1][KEY]

C4_Witness ==
    /\ Returned /\ enabled
    /\ x_smooth = x
    /\ FramesOf(x) = 1
    /\ OutputArray # InputArray

RECURSIVE RPow(_, _)
RPow(a, k) == IF k <= 0 THEN ROne ELSE RMul(a, RPow(a, k - 1))

\* the EMA in closed form: s_i = beta^i x_0 + sum_{j=1..i} (1-beta) beta^(i-j) x_j
\* (i, j 0-based; i = f - 1), of one band and channel
EmaClosed(xd, beta, f, b, c) ==
    RAdd(RMul(RPow(beta, f - 1), xd[1][b][c].r),
         SumSeq([j \in 1..(f - 1) |->
                    RMul(RMul(RSub(ROne, beta), RPow(beta, f - 1 - j)), xd[j + 1][b][c].r)]))

\* C5: under the compiled-in preset the output at frame t, band b, channel
\* c is gains[b] * s_t[b][c], s the EMA-smoothed input; for the [2,5,4]
\* input of ones then twos, frame 0 is 4.00 in band 0 and 0.01 in band 4,
\* and frame 1 band 0 is 4.40.
C5_PresetOutput ==
    (Returned /\ enabled /\ cfg = Preset) =>
        /\ heap[dicts[ret][KEY]].shape = heap0[dicts0[1][KEY]].shape
        /\ \A f \in 1..Len(InputArray) : \A b \in 1..B :
              \A c \in 1..Len(InputArray[f][b]) :
                 OutputArray[f][b][c] =
                     NumOf(RMul(PRESET_GAINS[b],
                                EmaClosed(InputArray, PRESET_EMA_BETA, f, b, c)))
        /\ InputArray = ExampleInput.data =>
              \A c \in 1..4 :
                 /\ OutputArray[1][1][c] = NumOf(RInt(4))
                 /\ OutputArray[1][5][c] = NumOf(Rat(1, 100))
                 /\ OutputArray[2][1][c] = NumOf(Rat(440, 100))

C5_Witness ==
    /\ Returned /\ enabled /\ cfg = Preset
    /\ InputArray = ExampleInput.data
    /\ OutputArray[2][1][1] = NumOf(Rat(44, 10))

\* C6: whatever T >= 1 and ema_beta, frame 0 of the smoother's output is
\* frame 0 of its input, and a sequence of length 1 leaves the smoother
\* unchanged.
C6_FirstFrame ==
    (x_smooth # None) =>
        /\ heap[x_smooth].data[1] = InputArray[1]
        /\ Len(InputArray) = 1 => heap[x_smooth].data = InputArray

C6_Witness ==
    /\ x_smooth # None /\ x_smooth # x
    /\ cfg.ema_beta = PRESET_EMA_BETA
    /\ heap[x_smooth].data # InputArray

\* C7: with alpha_mix = 0 (global gain 1, clamp disabled) the output is
\* the original input element for element, whatever gains, ema_beta and
\* preserve_rms are.
C7_ZeroBlend ==
    (Returned /\ enabled /\ cfg.alpha_mix = RZero /\ cfg.global_gain = ROne
              /\ ~RLess(RZero, cfg.clamp_std)) =>
        OutputArray = InputArray

C7_Witness ==
    /\ Returned /\ enabled /\ cfg.alpha_mix = RZero /\ cfg.global_gain = ROne
    /\ ~RLess(RZero, cfg.clamp_std)
    /\ cfg.preserve_rms
    /\ heap[x_smooth].data # InputArray
    /\ heap[x_edit].data # heap[x_smooth].data

\* the array the clamp was applied to: the clamp's result is the object
\* allocated right after it
PreClamp == heap[x_mixed - 1].data

\* sum of the elements and of their squares (rational elements)
ElemSum(xd) == LET fl == Flatten(xd) IN SumSeq([i \in 1..Len(fl) |-> fl[i].r])

ElemSqSum(xd) == LET fl == Flatten(xd) IN SumSeq([i \in 1..Len(fl) |-> RSq(fl[i].r)])

Count(xd) == Len(xd) * Len(xd[1]) * Len(xd[1][1])

GlobalMean(xd) == RDiv(ElemSum(xd), RInt(Count(xd)))

\* sum of squared deviations from the mean:  sum e^2 - (sum e)^2 / N
Deviation2(xd) == RSub(ElemSqSum(xd), RDiv(RSq(ElemSum(xd)), RInt(Count(xd))))

\* population variance (divisor N) and sample variance (divisor N - 1)
PopVar(xd) == RDiv(Deviation2(xd), RInt(Count(xd)))

SampleVar(xd) == RDiv(Deviation2(xd), RInt(Count(xd) - 1))

Floor2 == RNorm(1, 1, -12)

\* e lies in [mean - sqrt(w), mean + sqrt(w)]; an element with a square
\* root is one of the clamp's bounds, mean +- sqrt(m)
Within(e, mean, w) ==
    IF e.sg = 0 THEN RLeq(RSq(RSub(e.r, mean)), w)
    ELSE e.r = mean /\ RLeq(e.m, w)

AllWithin(xd, mean, w) ==
    \A f \in 1..Len(xd) : \A b \in 1..Len(xd[f]) : \A c \in 1..Len(xd[f][b]) :
        Within(xd[f][b][c], mean, w)

\* min(max(e, mean - sqrt(w)), mean + sqrt(w)) for a rational e
Clamped(e, mean, w) ==
    IF RLeq(RSq(RSub(e.r, mean)), w) THEN e
    ELSE Num(mean, IF RLess(e.r, mean) THEN -1 ELSE 1, w)

ClampActive == RLess(RZero, cfg.clamp_std)

\* C8 as claimed: with clamp_std > 0 every element of the output lies
\* within mean +- clamp_std * std, mean and std the population statistics
\* (divisor N) of the pre-clamp array, std floored at 1e-6.
C8_PopulationClamp ==
    (Returned /\ enabled /\ ClampActive) =>
        AllWithin(OutputArray, GlobalMean(PreClamp),
                  RMul(RSq(cfg.clamp_std), RMax(PopVar(PreClamp), Floor2)))

\* C8, amended: with clamp_std > 0 the post stage takes the global mean and
\* the sample standard deviation (divisor N - 1) of the pre-clamp array,
\* floors the deviation at 1e-6 and clamps every element into
\* mean +- clamp_std * std, so every element of the output lies in that
\* interval; with clamp_std <= 0 the step leaves the array as it is.
C8_SampleClamp ==
    /\ (Returned /\ enabled /\ ClampActive) =>
          LET mean == GlobalMean(PreClamp)
              w == RMul(RSq(cfg.clamp_std), RMax(SampleVar(PreClamp), Floor2))
          IN  /\ "clamp" \in stages
              /\ AllWithin(OutputArray, mean, w)
              /\ \A f \in 1..Len(PreClamp) : \A b \in 1..B :
                    \A c \in 1..Len(PreClamp[f][b]) :
                       OutputArray[f][b][c] = Clamped(PreClamp[f][b][c], mean, w)
    /\ (Returned /\ enabled /\ ~ClampActive) =>
          /\ "clamp" \notin stages
          /\ dicts[ret][KEY] = x_mixed
          /\ x_mixed = Len(heap)

C8_Witness ==
    /\ Returned /\ enabled /\ ClampActive
    /\ OutputArray # PreClamp
    /\ \E f \in 1..Len(OutputArray) : \E b \in 1..B : \E c \in 1..Len(OutputArray[f][b]) :
          OutputArray[f][b][c].sg = 1
    /\ \E f \in 1..Len(OutputArray) : \E b \in 1..B : \E c \in 1..Len(OutputArray[f][b]) :
          OutputArray[f][b][c].sg = -1

\* the gained array the RMS rescale was applied to: the rescale's result
\* is the object allocated right after it
Gained == heap[x_edit - 1].data

\* the blend has run and no later stage has replaced its result
AfterBlendOnly == "blend" \in stages /\ "global" \notin stages /\ "clamp" \notin stages

\* C9 as claimed: with preserve_rms and alpha_mix = 1 the channel RMS of
\* the blended array equals that of the original input at every frame and
\* band, the ones below the 1e-6 floor included.
C9_RmsPreservedAlways ==
    (AfterBlendOnly /\ cfg.preserve_rms /\ cfg.alpha_mix = ROne) =>
        \A f \in 1..Len(InputArray) : \A b \in 1..B :
            MeanSq(heap[x_mixed].data[f][b]) = MeanSq(InputArray[f][b])

\* C9, amended: with preserve_rms and alpha_mix = 1 the channel RMS of the
\* blended array (before global gain and clamp) equals that of the
\* original input at every frame and band where neither the original's nor
\* the gained array's RMS is below the 1e-6 floor; the rescale acts on the
\* gained array, after the gain and before the blend.
C9_RmsPreservedAboveFloor ==
    /\ (AfterBlendOnly /\ cfg.preserve_rms /\ cfg.alpha_mix = ROne) =>
          \A f \in 1..Len(InputArray) : \A b \in 1..B :
              (/\ RLeq(Floor2, MeanSq(InputArray[f][b]))
               /\ RLeq(Floor2, MeanSq(Gained[f][b]))) =>
                  MeanSq(heap[x_mixed].data[f][b]) = MeanSq(InputArray[f][b])
    /\ "rms" \in stages => (cfg.preserve_rms /\ "gain" \in stages)
    /\ ("blend" \in stages /\ cfg.preserve_rms) => "rms" \in stages

C9_Witness ==
    /\ AfterBlendOnly /\ cfg.preserve_rms /\ cfg.alpha_mix = ROne
    /\ cfg.ema_beta = PRESET_EMA_BETA /\ cfg.gains = PRESET_GAINS
    /\ Len(InputArray) = 2
    /\ RLeq(Floor2, MeanSq(InputArray[2][4]))
    /\ RLeq(Floor2, MeanSq(Gained[2][4]))
    /\ heap[x_mixed].data[2][4][1].sg # 0
    /\ MeanSq(Gained[2][4]) # MeanSq(InputArray[2][4])

====
